---- MODULE Spec2Model ----
(***************************************************************************)
(* PDF-compresser.py: find_gs, compress_pdf and main as a state machine.   *)
(*                                                                         *)
(* Text (Python str) is a sequence of tokens; a token is one character     *)
(* where the code looks at characters (preset names, file suffixes,        *)
(* captured streams, rendered integers) and an opaque word elsewhere.      *)
(* A path is text whose "/" tokens separate its components.                *)
(***************************************************************************)
EXTENDS Integers, Sequences, FiniteSets, TLC

\* ---------------------------------------------------------------- bounds
\* longest captured stream (stdout, stderr) the engine writes in SpecRun
MaxStreamLen == 3
\* preset spellings: the first k letters upper-cased, for k up to this bound
MaxCasePrefix == 1

\* ---------------------------------------------------------------- text
UpperChars == <<"A","B","C","D","E","F","G","H","I","J","K","L","M",
                "N","O","P","Q","R","S","T","U","V","W","X","Y","Z">>
LowerChars == <<"a","b","c","d","e","f","g","h","i","j","k","l","m",
                "n","o","p","q","r","s","t","u","v","w","x","y","z">>

\* str.lower() on one character
LowerChar(c) ==
    IF \E i \in DOMAIN UpperChars : UpperChars[i] = c
    THEN LowerChars[CHOOSE i \in DOMAIN UpperChars : UpperChars[i] = c]
    ELSE c

\* str.upper() on one character (used to enumerate spellings of a preset)
UpperChar(c) ==
    IF \E i \in DOMAIN LowerChars : LowerChars[i] = c
    THEN UpperChars[CHOOSE i \in DOMAIN LowerChars : LowerChars[i] = c]
    ELSE c

\* str.lower() forgotten: the text is looked up as typed
KeepCase(s) == s

\* str.lower()
Lower(s) == [i \in DOMAIN s |-> LowerChar(s[i])]

\* the characters str.strip() removes
IsSpace(c) == c \in {" ", "\t", "\n", "\r"}

RECURSIVE LStrip(_)
LStrip(s) == IF s # <<>> /\ IsSpace(Head(s)) THEN LStrip(Tail(s)) ELSE s

RECURSIVE RStrip(_)
RStrip(s) ==
    IF s # <<>> /\ IsSpace(s[Len(s)]) THEN RStrip(SubSeq(s, 1, Len(s) - 1)) ELSE s

\* str.strip()
Strip(s) == RStrip(LStrip(s))

\* sep.join(parts)
RECURSIVE Join(_, _)
Join(sep, parts) ==
    IF parts = <<>> THEN <<>>
    ELSE IF Len(parts) = 1 THEN parts[1]
    ELSE parts[1] \o sep \o Join(sep, Tail(parts))

\* sub occurs in s as a contiguous run (Python's `sub in s`)
Contains(s, sub) ==
    \E i \in 0..(Len(s) - Len(sub)) : SubSeq(s, i + 1, i + Len(sub)) = sub

DigitChars == <<"0","1","2","3","4","5","6","7","8","9">>

\* the decimal digits of a natural number
RECURSIVE NatToStr(_)
NatToStr(n) ==
    IF n < 10 THEN <<DigitChars[n + 1]>>
    ELSE NatToStr(n \div 10) \o <<DigitChars[(n % 10) + 1]>>

\* f"{n}" for an int
IntToStr(n) == IF n < 0 THEN <<"-">> \o NatToStr(0 - n) ELSE NatToStr(n)

IsDigit(c) == \E i \in DOMAIN DigitChars : DigitChars[i] = c
DigitVal(c) == (CHOOSE i \in DOMAIN DigitChars : DigitChars[i] = c) - 1

RECURSIVE DigitsVal(_)
DigitsVal(s) ==
    IF s = <<>> THEN 0 ELSE 10 * DigitsVal(SubSeq(s, 1, Len(s) - 1)) + DigitVal(s[Len(s)])

IsDigits(s) == s # <<>> /\ \A i \in DOMAIN s : IsDigit(s[i])

\* int(text) accepts an optional sign followed by digits
IsIntText(s) ==
    \/ IsDigits(s)
    \/ s # <<>> /\ Head(s) \in {"-", "+"} /\ IsDigits(Tail(s))

\* int(text)
ParseInt(s) ==
    IF Head(s) = "-" THEN 0 - DigitsVal(Tail(s))
    ELSE IF Head(s) = "+" THEN DigitsVal(Tail(s))
    ELSE DigitsVal(s)

\* ---------------------------------------------------------------- optional values
NoText == [some |-> FALSE, v |-> <<>>]
SomeText(t) == [some |-> TRUE, v |-> t]
NoInt == [some |-> FALSE, v |-> 0]
SomeInt(n) == [some |-> TRUE, v |-> n]

\* ---------------------------------------------------------------- paths
Sep == "/"

\* index of the last separator of p, 0 when there is none
LastSep(p) ==
    IF \E i \in DOMAIN p : p[i] = Sep
    THEN CHOOSE i \in DOMAIN p : p[i] = Sep /\ \A j \in DOMAIN p : p[j] = Sep => j <= i
    ELSE 0

\* Path.name
BaseName(p) == SubSeq(p, LastSep(p) + 1, Len(p))

\* Path.parent of an absolute path
Parent(p) == IF LastSep(p) <= 1 THEN <<Sep>> ELSE SubSeq(p, 1, LastSep(p) - 1)

\* Path.suffix: the final component from its last dot on, the dot not leading
Suffix(p) ==
    LET n == BaseName(p)
        dots == {i \in DOMAIN n : n[i] = "."}
    IN  IF dots = {} THEN <<>>
        ELSE LET d == CHOOSE i \in dots : \A j \in dots : j <= i
             IN  IF d = 1 THEN <<>> ELSE SubSeq(n, d, Len(n))

\* the working directory of the process
Cwd == <<Sep, "w">>

\* Path.resolve(): a relative path is taken from the working directory
Resolve(p) == IF p # <<>> /\ Head(p) = Sep THEN p ELSE Cwd \o <<Sep>> \o p

\* Path(text): trailing separators are dropped, the empty text is "."
RECURSIVE PathOf(_)
PathOf(t) ==
    IF t = <<>> THEN <<".">>
    ELSE IF Len(t) > 1 /\ t[Len(t)] = Sep THEN PathOf(SubSeq(t, 1, Len(t) - 1))
    ELSE t

\* a path and every ancestor of it below the root
RECURSIVE Ancestors(_)
Ancestors(p) == IF p = <<Sep>> THEN {p} ELSE {p} \cup Ancestors(Parent(p))

\* ---------------------------------------------------------------- program data
Screen == <<"s","c","r","e","e","n">>
Ebook == <<"e","b","o","o","k">>
Printer == <<"p","r","i","n","t","e","r">>
Prepress == <<"p","r","e","p","r","e","s","s">>
Default == <<"d","e","f","a","u","l","t">>

\* QUALITY_MAP, in insertion order
QUALITY_MAP ==
    << [key |-> Screen,   tok |-> <<"/","s","c","r","e","e","n">>],
       [key |-> Ebook,    tok |-> <<"/","e","b","o","o","k">>],
       [key |-> Printer,  tok |-> <<"/","p","r","i","n","t","e","r">>],
       [key |-> Prepress, tok |-> <<"/","p","r","e","p","r","e","s","s">>],
       [key |-> Default,  tok |-> <<"/","d","e","f","a","u","l","t">>] >>

\* the keys of QUALITY_MAP, in iteration order
MapKeys == [i \in DOMAIN QUALITY_MAP |-> QUALITY_MAP[i].key]

\* QUALITY_MAP.get(k, "/default"): an unknown key falls back to the default token
MapGetOrDefault(k) ==
    IF \E i \in DOMAIN QUALITY_MAP : QUALITY_MAP[i].key = k
    THEN SomeText(QUALITY_MAP[CHOOSE i \in DOMAIN QUALITY_MAP : QUALITY_MAP[i].key = k].tok)
    ELSE SomeText(<<"/","d","e","f","a","u","l","t">>)

\* QUALITY_MAP.get(k): the token, or None
MapGet(k) ==
    IF \E i \in DOMAIN QUALITY_MAP : QUALITY_MAP[i].key = k
    THEN SomeText(QUALITY_MAP[CHOOSE i \in DOMAIN QUALITY_MAP : QUALITY_MAP[i].key = k].tok)
    ELSE NoText

\* truthiness of an optional str: None and "" are both false
Truthy(o) == o.some /\ o.v # <<>>

\* the generic name tried before the Windows names
CandidatesGenericFirst == <<"gs", "gswin64c", "gswin32c">>

\* the executable names find_gs looks up, in order
Candidates == <<"gswin64c", "gswin32c", "gs">>

\* where a name found on the search path lives
BinPath(name) == <<Sep, "bin", Sep, name>>

\* argparse choices for --preset: sorted(QUALITY_MAP.keys())
Choices == {MapKeys[i] : i \in DOMAIN MapKeys}

\* ---------------------------------------------------------------- messages
NotFoundAt(explicit) == <<"Ghostscript not found at: ">> \o explicit

NotFoundOnPath ==
    <<"Ghostscript not found. Install it and/or add its bin folder to PATH ",
      "(so gswin64c.exe is discoverable).">>

UnknownPreset(preset) ==
    <<"Unknown preset '">> \o preset \o <<"'. Choose: ">> \o Join(<<",", " ">>, MapKeys)

GsFailed(stderr, stdout) ==
    <<"Ghostscript failed.", "\n", "STDERR:", "\n">> \o Strip(stderr)
        \o <<"\n", "\n", "STDOUT:", "\n">> \o Strip(stdout)

InputMustExist(p) == <<"Input must be an existing PDF: ">> \o p

\* ---------------------------------------------------------------- argument list
\* the list literal with -dNOPAUSE and -dBATCH exchanged
BaseCmdBatchFirst(exe, token, output_pdf, input_pdf) ==
    << exe,
       <<"-sDEVICE=pdfwrite">>,
       <<"-dCompatibilityLevel=1.4">>,
       <<"-dPDFSETTINGS=">> \o token,
       <<"-dBATCH">>,
       <<"-dNOPAUSE">>,
       <<"-dQUIET">>,
       <<"-dDetectDuplicateImages=true">>,
       <<"-dCompressFonts=true">>,
       <<"-dSubsetFonts=true">>,
       <<"-sOutputFile=">> \o output_pdf,
       input_pdf >>

\* the list literal of compress_pdf
BaseCmd(exe, token, output_pdf, input_pdf) ==
    << exe,
       <<"-sDEVICE=pdfwrite">>,
       <<"-dCompatibilityLevel=1.4">>,
       <<"-dPDFSETTINGS=">> \o token,
       <<"-dNOPAUSE">>,
       <<"-dBATCH">>,
       <<"-dQUIET">>,
       <<"-dDetectDuplicateImages=true">>,
       <<"-dCompressFonts=true">>,
       <<"-dSubsetFonts=true">>,
       <<"-sOutputFile=">> \o output_pdf,
       input_pdf >>

\* the six downsampling flags
Extra(dpi) ==
    << <<"-dDownsampleColorImages=true">>,
       <<"-dColorImageResolution=">> \o IntToStr(dpi),
       <<"-dDownsampleGrayImages=true">>,
       <<"-dGrayImageResolution=">> \o IntToStr(dpi),
       <<"-dDownsampleMonoImages=true">>,
       <<"-dMonoImageResolution=">> \o IntToStr(dpi) >>

\* insert_at = len(cmd) - 1: the flags land between the output flag and the input
InsertAtLast(c) == Len(c) - 1

\* insert_at = len(cmd) - 2
InsertAt(c) == Len(c) - 2

\* c[at:at] = extra, at counted from 0
Splice(c, at, extra) == SubSeq(c, 1, at) \o extra \o SubSeq(c, at + 1, Len(c))

\* result.returncode > 0: a child killed by a signal passes for a success
FailedPositive(returncode) == returncode > 0

\* result.returncode != 0
Failed(returncode) == returncode # 0

\* ---------------------------------------------------------------- inputs
\* spellings of a name: lower case, the first k letters upper-cased, all upper
Spellings(name) ==
    {[i \in DOMAIN name |-> IF i <= k THEN UpperChar(name[i]) ELSE name[i]] :
        k \in 0..MaxCasePrefix}
    \cup {[i \in DOMAIN name |-> UpperChar(name[i])]}

ValidPresets == UNION {Spellings(MapKeys[i]) : i \in DOMAIN MapKeys}

InvalidPresets ==
    { <<"b","o","g","u","s">>, <<>>, <<"e","b","o","o","k"," ">>, <<"/","e","b","o","o","k">> }

Presets == ValidPresets \cup InvalidPresets

DpiValues == {NoInt, SomeInt(-1), SomeInt(0), SomeInt(150)}

DpiTexts == {NoText, SomeText(<<"-","1">>), SomeText(<<"0">>),
             SomeText(<<"1","5","0">>), SomeText(<<"x">>)}

GsHere == <<Sep, "opt", Sep, "gs">>
GsGone == <<Sep, "nope", Sep, "gs">>

\* None, the empty string, an existing executable, a missing one
GsPaths == {NoText, SomeText(<<>>), SomeText(GsHere), SomeText(GsGone)}

DocPdf == <<"doc", ".", "p", "d", "f">>
ScanPdf == <<Sep, "w", Sep, "scan", ".", "P", "D", "F">>
NotesTxt == <<"notes", ".", "t", "x", "t">>
GonePdf == <<"gone", ".", "p", "d", "f">>
InputPaths == {DocPdf, ScanPdf, NotesTxt, GonePdf}

OutPdf == <<"out", ".", "p", "d", "f">>
DeepOut == <<"new", Sep, "sub", Sep, "out", ".", "p", "d", "f">>
UnderFile == <<"notes", ".", "t", "x", "t", Sep, "out", ".", "p", "d", "f">>
OutputPaths == {OutPdf, DeepOut, UnderFile}

InitDirs == {<<Sep>>, Cwd, <<Sep, "opt">>, <<Sep, "bin">>}
InitFiles == {Resolve(DocPdf), ScanPdf, Resolve(NotesTxt), GsHere}

Streams(n) == UNION {[1..k -> {" ", "e"}] : k \in 0..n}

\* what the engine can do in one run: exit code, captured streams, output written or not
EngineRuns(codes, streams) ==
    [returncode : codes, stdout : streams, stderr : streams, wrote : BOOLEAN]

CoarseRuns == EngineRuns({0, 1}, {<<>>, <<" ", "e", " ">>})
AllRuns == EngineRuns({0, 1, -9}, Streams(MaxStreamLen))

FileSizes == {0, 2}

NoArgv == [input |-> <<>>, output |-> <<>>, preset |-> NoText, dpi |-> NoText, gs |-> NoText]
NoCall == [input_pdf |-> <<>>, output_pdf |-> <<>>, preset |-> <<>>, dpi |-> NoInt,
           gs_path |-> NoText]
NoResult == [returncode |-> 0, stdout |-> <<>>, stderr |-> <<>>, wrote |-> FALSE]
NoOutcome == [kind |-> "none", msg |-> <<>>]
NoLookup == [kind |-> "none", path |-> <<>>, msg |-> <<>>]

\* ---------------------------------------------------------------- state
VARIABLES
    entry,      \* "cli": the script is run; "api": compress_pdf is called directly
    argv,       \* the command line of a cli run
    params,     \* the arguments of an api call
    onPath,     \* the candidate names the command search path resolves
    dirs,       \* the directories that exist
    files,      \* the files that exist
    created,    \* the files and directories this program itself created
    pc,         \* where the run is
    ns,         \* main: the parsed arguments
    inp,        \* main: the resolved input path
    out,        \* main: the resolved output path
    call,       \* compress_pdf: its arguments
    probes,     \* find_gs: the names looked up on the search path, in order
    gsRes,      \* find_gs: what it returned or raised
    gs,         \* compress_pdf: the resolved executable
    preset_gs,  \* compress_pdf: the token of the preset
    cmd,        \* compress_pdf: the argument list
    spawned,    \* the argument lists handed to subprocess.run, in order
    result,     \* compress_pdf: the completed child process
    outcome,    \* how the run ended: a return or the exception raised
    steps,      \* the steps of compress_pdf taken so far
    printed     \* main: what the report printed

vars == <<entry, argv, params, onPath, dirs, files, created, pc, ns, inp, out, call,
          probes, gsRes, gs, preset_gs, cmd, spawned, result, outcome, steps, printed>>

envVars == <<entry, argv, params, onPath>>
fsVars == <<dirs, files, created>>
mainVars == <<ns, inp, out, printed>>
gsVars == <<probes, gsRes>>
runVars == <<gs, preset_gs, cmd, spawned, result>>

Exists(p) == p \in dirs \/ p \in files

\* shutil.which(name)
Which(name) == IF name \in onPath THEN SomeText(BinPath(name)) ELSE NoText

ApiParams ==
    [input_pdf : {Resolve(DocPdf)}, output_pdf : {Resolve(OutPdf)}, preset : Presets,
     dpi : DpiValues, gs_path : GsPaths]

CliArgv ==
    [input : InputPaths, output : OutputPaths, preset : {NoText} \cup {SomeText(q) : q \in Presets},
     dpi : DpiTexts, gs : GsPaths]

Start ==
    /\ onPath \in SUBSET {Candidates[i] : i \in DOMAIN Candidates}
    /\ dirs = InitDirs
    /\ files = InitFiles \cup {BinPath(n) : n \in onPath}
    /\ created = {}
    /\ pc = "start"
    /\ ns = NoArgv
    /\ inp = <<>>
    /\ out = <<>>
    /\ call = NoCall
    /\ probes = <<>>
    /\ gsRes = NoLookup
    /\ gs = <<>>
    /\ preset_gs = NoText
    /\ cmd = <<>>
    /\ spawned = <<>>
    /\ result = NoResult
    /\ outcome = NoOutcome
    /\ steps = <<>>
    /\ printed = <<>>

Init ==
    /\ \/ entry = "api" /\ params \in ApiParams /\ argv = NoArgv
       \/ entry = "cli" /\ argv \in CliArgv /\ params = NoCall
    /\ Start

Raise(kind, msg) == outcome' = [kind |-> kind, msg |-> msg] /\ pc' = "done"

\* ---------------------------------------------------------------- main
\* lines 82-88: argparse; a bad --preset or --dpi ends the run before anything else
ParseArgs ==
    /\ pc = "start" /\ entry = "cli"
    /\ LET preset == IF argv.preset.some THEN argv.preset.v ELSE Ebook
       IN  IF preset \notin Choices
           THEN Raise("ArgparseError", <<"argument --preset: invalid choice">>) /\ UNCHANGED ns
           ELSE IF argv.dpi.some /\ ~IsIntText(argv.dpi.v)
           THEN Raise("ArgparseError", <<"argument --dpi: invalid int value">>) /\ UNCHANGED ns
           ELSE /\ ns' = [input |-> argv.input, output |-> argv.output,
                          preset |-> preset,
                          dpi |-> IF argv.dpi.some THEN SomeInt(ParseInt(argv.dpi.v)) ELSE NoInt,
                          gs |-> argv.gs]
                /\ pc' = "mkdir"
                /\ UNCHANGED outcome
    /\ UNCHANGED <<envVars, fsVars, inp, out, printed, call, gsVars, runVars, steps>>

\* lines 90-92: resolve both paths, then out.parent.mkdir(parents=True, exist_ok=True)
ResolveMkdir ==
    /\ pc = "mkdir"
    /\ inp' = Resolve(ns.input)
    /\ out' = Resolve(ns.output)
    /\ LET wanted == Ancestors(Parent(Resolve(ns.output)))
           blocked == {d \in wanted : d \in files}
           deepest == CHOOSE b \in blocked : \A c \in blocked : Len(c) <= Len(b)
           made == IF blocked = {} THEN wanted \ dirs
                   ELSE {d \in wanted \ dirs : Len(d) < Len(deepest)}
       IN  /\ dirs' = dirs \cup made
           /\ created' = created \cup made
           /\ IF blocked = {}
              THEN pc' = "check_input" /\ UNCHANGED outcome
              ELSE Raise("FileExistsError", deepest)
    /\ UNCHANGED <<envVars, files, ns, printed, call, gsVars, runVars, steps>>

\* lines 94-95
CheckInput ==
    /\ pc = "check_input"
    /\ IF ~Exists(inp) \/ Lower(Suffix(inp)) # <<".", "p", "d", "f">>
       THEN Raise("SystemExit", InputMustExist(inp))
       ELSE pc' = "call" /\ UNCHANGED outcome
    /\ UNCHANGED <<envVars, fsVars, mainVars, call, gsVars, runVars, steps>>

\* line 97
MainCall ==
    /\ pc = "call"
    /\ call' = [input_pdf |-> inp, output_pdf |-> out, preset |-> ns.preset, dpi |-> ns.dpi,
                gs_path |-> ns.gs]
    /\ pc' = "find_gs"
    /\ UNCHANGED <<envVars, fsVars, mainVars, gsVars, runVars, outcome, steps>>

\* compress_pdf called by another program
ApiCall ==
    /\ pc = "start" /\ entry = "api"
    /\ call' = params
    /\ pc' = "find_gs"
    /\ UNCHANGED <<envVars, fsVars, mainVars, gsVars, runVars, outcome, steps>>

\* lines 99-102: stat both files and print the report
Report ==
    /\ pc = "report"
    /\ \E before \in FileSizes, after \in FileSizes :
        IF ~Exists(inp) \/ ~Exists(out)
        THEN Raise("FileNotFoundError", IF Exists(inp) THEN out ELSE inp) /\ UNCHANGED printed
        ELSE IF before = 0
        THEN Raise("ZeroDivisionError", <<"division by zero">>) /\ UNCHANGED printed
        ELSE /\ printed' = <<"Saved: ">> \o out \o <<"\n", "Size: ">> \o IntToStr(before)
                    \o <<" -> ">> \o IntToStr(after) \o <<" (">>
                    \o IntToStr((after * 100) \div before) \o <<"%)">>
             /\ outcome' = [kind |-> "exit0", msg |-> <<>>]
             /\ pc' = "done"
    /\ UNCHANGED <<envVars, fsVars, ns, inp, out, call, gsVars, runVars, steps>>

\* ---------------------------------------------------------------- find_gs
\* a missing explicit path falls through to the search path instead of raising
FindGsExplicitFallsThrough ==
    /\ pc = "find_gs"
    /\ Truthy(call.gs_path)
    /\ LET p == PathOf(call.gs_path.v)
           w == Which(Candidates[1])
       IN  IF Exists(p)
           THEN gsRes' = [kind |-> "ok", path |-> p, msg |-> <<>>] /\ UNCHANGED probes
           ELSE /\ probes' = Append(probes, Candidates[1])
                /\ gsRes' = IF Truthy(w)
                             THEN [kind |-> "ok", path |-> w.v, msg |-> <<>>]
                             ELSE [kind |-> "FileNotFoundError", path |-> <<>>,
                                   msg |-> NotFoundOnPath]
    /\ pc' = "find_ret"
    /\ UNCHANGED <<envVars, fsVars, mainVars, call, runVars, outcome, steps>>

\* lines 15-19: an explicit path is returned if it exists and is an error if not
FindGsExplicit ==
    /\ pc = "find_gs"
    /\ Truthy(call.gs_path)
    /\ LET p == PathOf(call.gs_path.v)
       IN  gsRes' = IF Exists(p)
                    THEN [kind |-> "ok", path |-> p, msg |-> <<>>]
                    ELSE [kind |-> "FileNotFoundError", path |-> <<>>,
                          msg |-> NotFoundAt(call.gs_path.v)]
    /\ pc' = "find_ret"
    /\ UNCHANGED <<envVars, fsVars, mainVars, call, probes, runVars, outcome, steps>>

\* lines 22-25: one iteration of the loop over the candidate names
FindGsProbe ==
    /\ pc = "find_gs"
    /\ ~Truthy(call.gs_path)
    /\ Len(probes) < Len(Candidates)
    /\ LET name == Candidates[Len(probes) + 1]
           p == Which(name)
       IN  /\ probes' = Append(probes, name)
           /\ IF Truthy(p)
              THEN gsRes' = [kind |-> "ok", path |-> p.v, msg |-> <<>>] /\ pc' = "find_ret"
              ELSE UNCHANGED <<gsRes, pc>>
    /\ UNCHANGED <<envVars, fsVars, mainVars, call, runVars, outcome, steps>>

\* lines 27-30: the loop ended without a match
FindGsNone ==
    /\ pc = "find_gs"
    /\ ~Truthy(call.gs_path)
    /\ Len(probes) = Len(Candidates)
    /\ gsRes' = [kind |-> "FileNotFoundError", path |-> <<>>, msg |-> NotFoundOnPath]
    /\ pc' = "find_ret"
    /\ UNCHANGED <<envVars, fsVars, mainVars, call, probes, runVars, outcome, steps>>

\* ---------------------------------------------------------------- compress_pdf
\* line 39: gs = find_gs(gs_path); what find_gs raises leaves compress_pdf as it is
FindGsReturn ==
    /\ pc = "find_ret"
    /\ steps' = Append(steps, "resolve")
    /\ IF gsRes.kind = "ok"
       THEN gs' = gsRes.path /\ pc' = "validate" /\ UNCHANGED outcome
       ELSE Raise(gsRes.kind, gsRes.msg) /\ UNCHANGED gs
    /\ UNCHANGED <<envVars, fsVars, mainVars, call, gsVars, preset_gs, cmd, spawned, result>>

\* lines 40-42
ValidatePreset ==
    /\ pc = "validate"
    /\ steps' = Append(steps, "validate")
    /\ preset_gs' = MapGet(Lower(call.preset))
    /\ IF ~Truthy(MapGet(Lower(call.preset)))
       THEN Raise("ValueError", UnknownPreset(call.preset))
       ELSE pc' = "build" /\ UNCHANGED outcome
    /\ UNCHANGED <<envVars, fsVars, mainVars, call, gsVars, gs, cmd, spawned, result>>

\* lines 44-72: the base list, and the downsampling flags spliced in when dpi is given
BuildCmd ==
    /\ pc = "build"
    /\ steps' = Append(steps, "build")
    /\ LET base == BaseCmd(gs, preset_gs.v, call.output_pdf, call.input_pdf)
       IN  cmd' = IF call.dpi.some
                  THEN Splice(base, InsertAt(base), Extra(call.dpi.v))
                  ELSE base
    /\ pc' = "spawn"
    /\ UNCHANGED <<envVars, fsVars, mainVars, call, gsVars, gs, preset_gs, spawned, result,
                   outcome>>

\* line 74: subprocess.run(cmd, capture_output=True, text=True) runs the engine to its end
Spawn(runs) ==
    /\ pc = "spawn"
    /\ steps' = Append(steps, "spawn")
    /\ spawned' = Append(spawned, cmd)
    /\ \E r \in runs :
        /\ result' = r
        /\ files' = IF r.wrote THEN files \cup {call.output_pdf} ELSE files
    /\ pc' = "check"
    /\ UNCHANGED <<envVars, dirs, created, mainVars, call, gsVars, gs, preset_gs, cmd, outcome>>

\* a failed run is tried once more before the error is raised
CheckExitRetry ==
    /\ pc = "check"
    /\ steps' = Append(steps, "check")
    /\ IF Failed(result.returncode) /\ Len(spawned) < 2
       THEN pc' = "spawn" /\ UNCHANGED outcome
       ELSE IF Failed(result.returncode)
       THEN Raise("RuntimeError", GsFailed(result.stderr, result.stdout))
       ELSE IF entry = "cli"
       THEN pc' = "report" /\ UNCHANGED outcome
       ELSE outcome' = [kind |-> "returned", msg |-> <<>>] /\ pc' = "done"
    /\ UNCHANGED <<envVars, fsVars, mainVars, call, gsVars, runVars>>

\* lines 75-79
CheckExit ==
    /\ pc = "check"
    /\ steps' = Append(steps, "check")
    /\ IF Failed(result.returncode)
       THEN Raise("RuntimeError", GsFailed(result.stderr, result.stdout))
       ELSE IF entry = "cli"
       THEN pc' = "report" /\ UNCHANGED outcome
       ELSE outcome' = [kind |-> "returned", msg |-> <<>>] /\ pc' = "done"
    /\ UNCHANGED <<envVars, fsVars, mainVars, call, gsVars, runVars>>

\* ---------------------------------------------------------------- specifications
Step ==
    \/ ParseArgs
    \/ ResolveMkdir
    \/ CheckInput
    \/ MainCall
    \/ ApiCall
    \/ Report
    \/ FindGsExplicit
    \/ FindGsProbe
    \/ FindGsNone
    \/ FindGsReturn
    \/ ValidatePreset
    \/ BuildCmd
    \/ CheckExit

Next == Step \/ Spawn(CoarseRuns)

\* every request, the engine's answers drawn from CoarseRuns
Spec == Init /\ [][Next]_vars

NextRun == Step \/ Spawn(AllRuns)

\* a few requests, the engine's answers drawn from AllRuns
InitRun ==
    /\ Init
    /\ onPath \in {{}, {"gs"}}
    /\ entry = "api" =>
        /\ params.preset \in {Ebook, <<"b","o","g","u","s">>}
        /\ params.dpi \in {NoInt, SomeInt(150)}
        /\ params.gs_path \in {NoText, SomeText(GsHere)}
    /\ entry = "cli" =>
        /\ argv.preset = NoText
        /\ argv.dpi = NoText
        /\ argv.gs \in {NoText, SomeText(GsHere)}
        /\ argv.input = DocPdf
        /\ argv.output \in {OutPdf, DeepOut}

SpecRun == InitRun /\ [][NextRun]_vars

\* ---------------------------------------------------------------- vocabulary of the claims
\* two characters that differ at most in letter case
SameLetter(c, d) == c = d \/ UpperChar(c) = d \/ c = UpperChar(d)

\* two texts equal up to letter case
SameName(a, b) == Len(a) = Len(b) /\ \A i \in DOMAIN a : SameLetter(a[i], b[i])

FiveNames == {Screen, Ebook, Printer, Prepress, Default}

\* the preset is, case-insensitively, one of the five names
IsPresetName(q) == \E k \in FiveNames : SameName(q, k)

\* compress_pdf has been entered
Called == call # NoCall

\* compress_pdf is over: it raised, or it returned (a cli run then goes on to its report)
CallOver == Called /\ (pc \in {"report", "done"})

\* the message names all five presets
NamesAllFive(msg) == \A k \in FiveNames : Contains(msg, k)

\* the engine can be resolved: the explicit path exists, or a candidate is on the path
Resolvable ==
    IF call.gs_path.some /\ call.gs_path.v # <<>>
    THEN call.gs_path.v \in dirs \cup files
    ELSE onPath # {}

DownsampleHeads ==
    {"-dDownsampleColorImages=true", "-dColorImageResolution=",
     "-dDownsampleGrayImages=true", "-dGrayImageResolution=",
     "-dDownsampleMonoImages=true", "-dMonoImageResolution="}

ResolutionHeads ==
    {"-dColorImageResolution=", "-dGrayImageResolution=", "-dMonoImageResolution="}

BaseHeads ==
    {"-sDEVICE=pdfwrite", "-dCompatibilityLevel=1.4", "-dPDFSETTINGS=", "-dNOPAUSE",
     "-dBATCH", "-dQUIET", "-dDetectDuplicateImages=true", "-dCompressFonts=true",
     "-dSubsetFonts=true"}

IsDownsample(e) == Head(e) \in DownsampleHeads
NotDownsample(e) == ~IsDownsample(e)

\* t is s without its leading and trailing whitespace, the rest untouched
IsStripOf(t, s) ==
    \E i \in 0..Len(s) : \E j \in i..Len(s) :
        /\ t = SubSeq(s, i + 1, j)
        /\ \A k \in 1..i : s[k] \in {" ", "\t", "\n", "\r"}
        /\ \A k \in (j + 1)..Len(s) : s[k] \in {" ", "\t", "\n", "\r"}
        /\ t # <<>> => t[1] \notin {" ", "\t", "\n", "\r"}
                       /\ t[Len(t)] \notin {" ", "\t", "\n", "\r"}

\* ---------------------------------------------------------------- C1
\* C1 (as stated): for every preset that is not one of the five names, whatever the
\* other arguments and the environment, compress_pdf ends with a ValueError naming all
\* five presets, and no child process has been spawned.
C1_AnyEnvironment ==
    (CallOver /\ ~IsPresetName(call.preset)) =>
        /\ outcome.kind = "ValueError"
        /\ NamesAllFive(outcome.msg)
        /\ spawned = <<>>

\* C1 (amended): for every preset that is not one of the five names no child process is
\* ever spawned, and compress_pdf ends with a ValueError naming all five presets when
\* the engine is resolved, and with find_gs's FileNotFoundError when it is not.
C1_InvalidPresetRejected ==
    (Called /\ ~IsPresetName(call.preset)) =>
        /\ spawned = <<>>
        /\ CallOver =>
            IF Resolvable
            THEN outcome.kind = "ValueError" /\ NamesAllFive(outcome.msg)
            ELSE outcome.kind = "FileNotFoundError"

C1_Witness ==
    /\ CallOver /\ ~IsPresetName(call.preset) /\ Resolvable
    /\ outcome.kind = "ValueError"
    /\ call.preset = <<"b","o","g","u","s">>

\* ---------------------------------------------------------------- C2
\* C2: in every argument list handed to the subprocess the last element is the input
\* path and the one before it is -sOutputFile=<output>; with dpi given, exactly six
\* downsampling flags (enable, resolution for Color, Gray, Mono) form one contiguous
\* block after every base flag and before the -sOutputFile flag.
C2_TrailingOrder ==
    \A n \in DOMAIN spawned :
        LET c == spawned[n]
            ds == {i \in DOMAIN c : IsDownsample(c[i])}
            lo == CHOOSE i \in ds : \A j \in ds : i <= j
        IN  /\ Len(c) >= 2
            /\ c[Len(c)] = call.input_pdf
            /\ c[Len(c) - 1] = <<"-sOutputFile=">> \o call.output_pdf
            /\ call.dpi.some =>
                /\ Cardinality(ds) = 6
                /\ ds = lo..(lo + 5)
                /\ Head(c[lo]) = "-dDownsampleColorImages=true"
                /\ Head(c[lo + 1]) = "-dColorImageResolution="
                /\ Head(c[lo + 2]) = "-dDownsampleGrayImages=true"
                /\ Head(c[lo + 3]) = "-dGrayImageResolution="
                /\ Head(c[lo + 4]) = "-dDownsampleMonoImages=true"
                /\ Head(c[lo + 5]) = "-dMonoImageResolution="
                /\ \A i \in {lo + 1, lo + 3, lo + 5} : ParseInt(Tail(c[i])) = call.dpi.v
                /\ \A i \in ds : i < Len(c) - 1
                /\ \A i \in ds : \A j \in DOMAIN c : Head(c[j]) \in BaseHeads => j < i

C2_Witness ==
    /\ spawned # <<>>
    /\ call.dpi = SomeInt(150)
    /\ Len(spawned[1]) = 18

\* ---------------------------------------------------------------- C3
\* C3 (as stated): whenever an explicit path is supplied, the empty string included, and
\* it does not exist, find_gs fails with the not-found error naming that path and looks
\* up no candidate name.
C3_AnySuppliedString ==
    (Called /\ call.gs_path.some /\ call.gs_path.v \notin dirs \cup files) =>
        /\ probes = <<>>
        /\ gsRes.kind # "none" =>
            /\ gsRes.kind = "FileNotFoundError"
            /\ gsRes.msg = <<"Ghostscript not found at: ">> \o call.gs_path.v

\* C3 (amended): whenever a non-empty explicit path is supplied and it does not exist,
\* find_gs fails with the not-found error naming that path and looks up no candidate
\* name, even when a candidate would resolve; an empty string is handled as no path.
C3_MissingExplicitPath ==
    /\ (Called /\ call.gs_path.some /\ call.gs_path.v # <<>>
            /\ call.gs_path.v \notin dirs \cup files) =>
        /\ probes = <<>>
        /\ gsRes.kind # "none" =>
            /\ gsRes.kind = "FileNotFoundError"
            /\ gsRes.msg = <<"Ghostscript not found at: ">> \o call.gs_path.v
    /\ (Called /\ call.gs_path = SomeText(<<>>) /\ gsRes.kind # "none") =>
        /\ probes # <<>>
        /\ gsRes.kind = "ok" <=> onPath # {}

C3_Witness ==
    /\ call.gs_path = SomeText(GsGone)
    /\ onPath = {"gswin64c", "gs"}
    /\ gsRes.kind = "FileNotFoundError"
    /\ probes = <<>>

\* ---------------------------------------------------------------- C4
\* C4: with no explicit path find_gs looks the names up in the order gswin64c, gswin32c,
\* gs, returns the path of the first that resolves and looks up none after it; when none
\* resolves it fails with the error telling the user to install the engine and put it on
\* PATH.
C4_FirstCandidateWins ==
    (Called /\ ~call.gs_path.some) =>
        LET order == <<"gswin64c", "gswin32c", "gs">>
            hits == {i \in DOMAIN order : order[i] \in onPath}
            first == CHOOSE i \in hits : \A j \in hits : i <= j
        IN  /\ Len(probes) <= 3
            /\ probes = SubSeq(order, 1, Len(probes))
            /\ \A i \in DOMAIN probes : i < Len(probes) => probes[i] \notin onPath
            /\ gsRes.kind # "none" =>
                IF hits = {}
                THEN /\ gsRes.kind = "FileNotFoundError"
                     /\ probes = order
                     /\ Contains(gsRes.msg,
                          <<"Ghostscript not found. Install it and/or add its bin folder to PATH ">>)
                ELSE /\ gsRes.kind = "ok"
                     /\ probes = SubSeq(order, 1, first)
                     /\ gsRes.path = <<"/", "bin", "/", order[first]>>

C4_Witness ==
    /\ Called /\ ~call.gs_path.some
    /\ onPath = {"gswin32c", "gs"}
    /\ gsRes.kind = "ok"
    /\ gsRes.path = <<"/", "bin", "/", "gswin32c">>
    /\ probes = <<"gswin64c", "gswin32c">>

\* ---------------------------------------------------------------- C5
\* C5: once the engine has been spawned, compress_pdf raises RuntimeError exactly when
\* the exit code is not zero; the message then holds the captured stderr and stdout,
\* each without its leading and trailing whitespace and otherwise unchanged; with exit
\* code 0 it returns normally, whatever the streams hold and whether or not the output
\* file exists.
C5_ExitCodeDecides ==
    (CallOver /\ spawned # <<>>) =>
        /\ outcome.kind = "RuntimeError" <=> result.returncode # 0
        /\ result.returncode # 0 =>
            \E e \in Streams(Len(result.stderr)), o \in Streams(Len(result.stdout)) :
                /\ IsStripOf(e, result.stderr)
                /\ IsStripOf(o, result.stdout)
                /\ outcome.msg = <<"Ghostscript failed.", "\n", "STDERR:", "\n">> \o e
                                    \o <<"\n", "\n", "STDOUT:", "\n">> \o o
        /\ (result.returncode = 0 /\ entry = "api") => outcome.kind = "returned"
        /\ (result.returncode = 0 /\ entry = "cli") =>
                outcome.kind \in {"none", "exit0", "FileNotFoundError", "ZeroDivisionError"}

C5_Witness ==
    /\ CallOver /\ spawned # <<>>
    /\ outcome.kind = "RuntimeError"
    /\ result.returncode = -9
    /\ result.stderr = <<" ", "e", " ">>
    /\ result.stdout = <<"e", " ", "e">>

\* ---------------------------------------------------------------- C6
\* C6: every spelling, in any letter case, of screen, ebook, printer, prepress, default
\* yields exactly one token, /screen, /ebook, /printer, /prepress, /default, distinct
\* presets yield distinct tokens, and that token is the value of the one -dPDFSETTINGS=
\* flag of the spawned argument list.
C6_TokenOfPreset ==
    /\ \A i, j \in DOMAIN QUALITY_MAP :
            i # j => QUALITY_MAP[i].tok # QUALITY_MAP[j].tok
    /\ (Called /\ IsPresetName(call.preset)) =>
        LET names == {k \in FiveNames : SameName(call.preset, k)}
            name == CHOOSE k \in names : TRUE
        IN  /\ Cardinality(names) = 1
            /\ outcome.kind # "ValueError"
            /\ pc \in {"build", "spawn", "check", "report"} =>
                    preset_gs = SomeText(<<"/">> \o name)
            /\ \A n \in DOMAIN spawned :
                LET c == spawned[n]
                    at == {i \in DOMAIN c : Head(c[i]) = "-dPDFSETTINGS="}
                IN  /\ Cardinality(at) = 1
                    /\ \A i \in at : c[i] = <<"-dPDFSETTINGS=", "/">> \o name

C6_Witness ==
    /\ spawned # <<>>
    /\ call.preset = <<"P","R","E","P","R","E","S","S">>
    /\ preset_gs.v = <<"/","p","r","e","p","r","e","s","s">>

\* ---------------------------------------------------------------- C7
\* C7: a cli run that fails because the input is missing or is no .pdf, the engine
\* cannot be located, the preset is invalid or the engine exits non-zero has created no
\* file and no directory of its own, the parent directory of the output path included.
C7_FailedRunCreatesNothing ==
    ( /\ entry = "cli"
      /\ pc = "done"
      /\ \/ outcome.kind \in {"SystemExit", "ValueError", "RuntimeError"}
         \/ outcome.kind = "FileNotFoundError" /\ gsRes.kind = "FileNotFoundError" )
    => created = {}

\* ---------------------------------------------------------------- C8
\* C8: in every argument list that reaches the engine the three resolution flags carry
\* the same value and it is an integer greater than zero; a dpi of zero or below never
\* reaches the engine.
C8_ResolutionPositive ==
    \A n \in DOMAIN spawned :
        LET c == spawned[n]
            at == {i \in DOMAIN c : Head(c[i]) \in ResolutionHeads}
        IN  /\ \A i, j \in at : Tail(c[i]) = Tail(c[j])
            /\ \A i \in at : IsIntText(Tail(c[i])) /\ ParseInt(Tail(c[i])) > 0

\* ---------------------------------------------------------------- C9
\* C9: without dpi the spawned argument list is exactly the executable, -sDEVICE=pdfwrite,
\* -dCompatibilityLevel=1.4, -dPDFSETTINGS=<token>, -dNOPAUSE, -dBATCH, -dQUIET,
\* -dDetectDuplicateImages=true, -dCompressFonts=true, -dSubsetFonts=true,
\* -sOutputFile=<output>, <input>, with no downsampling flag; with dpi it is the same
\* twelve elements in the same order plus the six downsampling flags.
C9_ExactArguments ==
    \A n \in DOMAIN spawned :
        LET c == spawned[n]
            name == CHOOSE k \in FiveNames : SameName(call.preset, k)
            twelve == << gsRes.path,
                         <<"-sDEVICE=pdfwrite">>,
                         <<"-dCompatibilityLevel=1.4">>,
                         <<"-dPDFSETTINGS=", "/">> \o name,
                         <<"-dNOPAUSE">>,
                         <<"-dBATCH">>,
                         <<"-dQUIET">>,
                         <<"-dDetectDuplicateImages=true">>,
                         <<"-dCompressFonts=true">>,
                         <<"-dSubsetFonts=true">>,
                         <<"-sOutputFile=">> \o call.output_pdf,
                         call.input_pdf >>
        IN  /\ SelectSeq(c, NotDownsample) = twelve
            /\ Len(c) = IF call.dpi.some THEN 18 ELSE 12

C9_Witness ==
    /\ spawned # <<>>
    /\ ~call.dpi.some
    /\ Len(spawned[1]) = 12
    /\ call.preset = Ebook

\* ---------------------------------------------------------------- C10
\* C10: one call of compress_pdf takes its steps in the order resolve, validate, build,
\* spawn, check; the child is spawned at most once: once when the engine was resolved
\* and the preset was valid, never otherwise, never again after a non-zero exit; a
\* failure of find_gs is the call's error unchanged, and every failure ends the call.
C10_LinearSingleSpawn ==
    LET order == <<"resolve", "validate", "build", "spawn", "check">>
    IN  /\ Len(steps) <= 5
        /\ steps = SubSeq(order, 1, Len(steps))
        /\ Len(spawned) = Cardinality({i \in DOMAIN steps : steps[i] = "spawn"})
        /\ Len(spawned) <= 1
        /\ outcome.kind # "none" => pc = "done"
        /\ CallOver =>
            IF ~Resolvable
            THEN /\ steps = <<"resolve">>
                 /\ spawned = <<>>
                 /\ outcome = [kind |-> gsRes.kind, msg |-> gsRes.msg]
                 /\ gsRes.kind = "FileNotFoundError"
            ELSE IF ~IsPresetName(call.preset)
            THEN /\ steps = <<"resolve", "validate">>
                 /\ spawned = <<>>
                 /\ outcome.kind = "ValueError"
            ELSE /\ steps = order
                 /\ Len(spawned) = 1
                 /\ outcome.kind = "RuntimeError" => result.returncode # 0

C10_Witness ==
    /\ CallOver
    /\ outcome.kind = "RuntimeError"
    /\ Len(spawned) = 1
    /\ steps = <<"resolve", "validate", "build", "spawn", "check">>

====
